---- MODULE Spec2Model ----
(***************************************************************************)
(* A model of AIWriterExtension.py: the command dispatcher (trigger), the  *)
(* settings store (get_config / set_config on aiwriter.json), the          *)
(* completion client (process_text), the result inserter (insert_text)     *)
(* and the two modal forms (settings_box, translation_box).                *)
(*                                                                         *)
(* Text is a sequence of symbols, one per character; a localized label     *)
(* self.lang[k] and a library's fixed message are one symbol each.  Python *)
(* values are tagged records (str / int / float / None); a float is held   *)
(* in tenths.                                                              *)
(*                                                                         *)
(* What the model takes from the host:                                     *)
(*  - a Writer document is the current component, and the first range of   *)
(*    the controller's selection is the range of the view cursor;          *)
(*  - aiwriter.json is missing, undecodable, or one JSON object of         *)
(*    strings and numbers, and the write at line 225 succeeds;             *)
(*  - urlopen returns the response for a 2xx status and raises HTTPError   *)
(*    for any other, URLError when no response arrives.                    *)
(*                                                                         *)
(* Spec is the dispatcher driven by the user and the endpoint; SpecStore   *)
(* is the settings store driven by arbitrary get_config / set_config.      *)
(***************************************************************************)
EXTENDS Integers, Sequences, FiniteSets, TLC

VARIABLES
    file,     \* aiwriter.json on disk: [kind, data]
    doc,      \* the string of the view cursor (the current selection)
    cmd,      \* the command of the last trigger call ("" before the first)
    pre,      \* file and doc as they were when the last trigger call began
    inp,      \* what the user and the endpoint answered during that call
    events,   \* what that call did, in order: dialogs, forms, writes, requests
    raised,   \* the exception that escaped that call (<<>> when none did)
    written   \* per key, the value last given to set_config (Absent: none)

vars == <<file, doc, cmd, pre, inp, events, raised, written>>

----------------------------------------------------------------------------
(* Bounds of the model. *)

MaxSelLen == 2        \* longest selection the user makes
MaxRawLen == 2        \* longest message content the endpoint returns

----------------------------------------------------------------------------
(* Python values. *)

PStr(s)   == [t |-> "str",   s |-> s,    n |-> 0]
PInt(n)   == [t |-> "int",   s |-> <<>>, n |-> n]
PFloat(x) == [t |-> "float", s |-> <<>>, n |-> x]   \* x tenths
PNone     == [t |-> "none",  s |-> <<>>, n |-> 0]

Digits == <<"0", "1", "2", "3", "4", "5", "6", "7", "8", "9">>
IsDigitChar(c) == \E i \in 1..10 : Digits[i] = c
DigitVal(c) == (CHOOSE i \in 1..10 : Digits[i] = c) - 1
Whitespace == {" ", "\n"}

\* str.isdigit(): non-empty and every character a digit
isdigit(s) == Len(s) > 0 /\ \A i \in 1..Len(s) : IsDigitChar(s[i])

RECURSIVE DigitsToNat(_)
DigitsToNat(s) ==
    IF s = <<>> THEN 0
    ELSE 10 * DigitsToNat(SubSeq(s, 1, Len(s) - 1)) + DigitVal(s[Len(s)])

RECURSIVE NatToDigits(_)
NatToDigits(n) ==
    IF n < 10 THEN <<Digits[n + 1]>>
    ELSE NatToDigits(n \div 10) \o <<Digits[(n % 10) + 1]>>

RECURSIVE LStrip(_)
LStrip(s) ==
    IF s # <<>> /\ s[1] \in Whitespace THEN LStrip(Tail(s)) ELSE s

RECURSIVE RStrip(_)
RStrip(s) ==
    IF s # <<>> /\ s[Len(s)] \in Whitespace
    THEN RStrip(SubSeq(s, 1, Len(s) - 1)) ELSE s

\* str.strip()
strip(s) == RStrip(LStrip(s))

\* Index of the first "." of s, 0 when it has none
DotAt(s) ==
    IF \E i \in 1..Len(s) : s[i] = "."
    THEN CHOOSE i \in 1..Len(s) : s[i] = "." /\ \A j \in 1..(i - 1) : s[j] # "."
    ELSE 0

AllDigits(s) == \A i \in 1..Len(s) : IsDigitChar(s[i])

\* Whether int(text) parses: surrounding whitespace, then digits only
IntTextOk(s) == isdigit(strip(s))

\* Whether float(text) parses: digits with at most one ".", one digit at
\* least; the model holds tenths, so at most one fractional digit
FloatTextOk(s) ==
    LET u == strip(s)
        d == DotAt(u)
        ip == IF d = 0 THEN u ELSE SubSeq(u, 1, d - 1)
        fp == IF d = 0 THEN <<>> ELSE SubSeq(u, d + 1, Len(u))
    IN  /\ AllDigits(ip) /\ AllDigits(fp)
        /\ Len(ip) + Len(fp) > 0
        /\ Len(fp) <= 1

FloatTextVal(s) ==
    LET u == strip(s)
        d == DotAt(u)
        ip == IF d = 0 THEN u ELSE SubSeq(u, 1, d - 1)
        fp == IF d = 0 THEN <<>> ELSE SubSeq(u, d + 1, Len(u))
    IN  10 * DigitsToNat(ip) + DigitsToNat(fp)

\* repr of a float held in tenths: 7 -> "0.7", 10 -> "1.0"
FloatRepr(x) == NatToDigits(x \div 10) \o <<".">> \o NatToDigits(x % 10)

\* str(v)
PyStr(v) ==
    CASE v.t = "str"   -> v.s
      [] v.t = "int"   -> NatToDigits(v.n)
      [] v.t = "float" -> FloatRepr(v.n)
      [] OTHER         -> <<"N", "o", "n", "e">>

\* int(v) raises ValueError on text that is no integer literal
PyIntOk(v) == v.t \in {"int", "float"} \/ (v.t = "str" /\ IntTextOk(v.s))
PyInt(v) ==
    CASE v.t = "int"   -> v.n
      [] v.t = "float" -> v.n \div 10
      [] OTHER         -> DigitsToNat(strip(v.s))

\* float(v) raises ValueError on text that is no number; the result in tenths
PyFloatOk(v) == v.t \in {"int", "float"} \/ (v.t = "str" /\ FloatTextOk(v.s))
PyFloat(v) ==
    CASE v.t = "float" -> v.n
      [] v.t = "int"   -> 10 * v.n
      [] OTHER         -> FloatTextVal(v.s)

----------------------------------------------------------------------------
(* The settings file: json.load / json.dump and get_config / set_config. *)

Keys == {"openai_api_key", "model", "max_tokens", "temperature", "language"}

\* A key a dict does not hold, and a member a JSON object does not have
Absent == [t |-> "absent", s |-> <<>>, n |-> 0]
NoTok  == [j |-> "absent", text |-> <<>>]

\* json.dump of one scalar: a string literal, or a number literal that has
\* a "." exactly when the value is a float
JsonDump(v) ==
    CASE v.t = "str"   -> [j |-> "string", text |-> v.s]
      [] v.t = "int"   -> [j |-> "number", text |-> NatToDigits(v.n)]
      [] v.t = "float" -> [j |-> "number", text |-> FloatRepr(v.n)]
      [] OTHER         -> NoTok

\* json.load of one scalar
JsonLoad(tok) ==
    CASE tok.j = "string" -> PStr(tok.text)
      [] tok.j = "number" ->
            IF DotAt(tok.text) = 0 THEN PInt(DigitsToNat(tok.text))
            ELSE PFloat(FloatTextVal(tok.text))
      [] OTHER -> Absent

json_dump(config_data) == [k \in Keys |-> JsonDump(config_data[k])]
json_load(data) == [k \in Keys |-> JsonLoad(data[k])]

EmptyDict == [k \in Keys |-> Absent]

MissingFile == [kind |-> "missing", data |-> [k \in Keys |-> NoTok]]
CorruptFile == [kind |-> "corrupt", data |-> [k \in Keys |-> NoTok]]
ObjectFile(config_data) == [kind |-> "object", data |-> json_dump(config_data)]

\* dict.get(key, default)
DictGet(config_data, key, default) ==
    IF config_data[key] = Absent THEN default ELSE config_data[key]

get_config(f, key, default) ==
    IF f.kind = "missing" THEN default
    ELSE IF f.kind = "corrupt" THEN default
    ELSE DictGet(json_load(f.data), key, default)

\* Variant of set_config: the existing members not carried over
set_config_Overwrite(f, key, value) ==
    ObjectFile([EmptyDict EXCEPT ![key] = value])

set_config(f, key, value) ==
    LET config_data == IF f.kind = "object" THEN json_load(f.data)
                       ELSE EmptyDict
    IN  ObjectFile([config_data EXCEPT ![key] = value])

----------------------------------------------------------------------------
(* Localized labels, messages and the events a trigger call leaves. *)

\* self.lang[k]
Lang(k) == <<k>>

\* str.upper() on the symbols the command labels and texts are made of
UpperSym(c) ==
    CASE c = "a" -> "A"
      [] c = "b" -> "B"
      [] c = "command_translate" -> "COMMAND_TRANSLATE"
      [] c = "command_complete"  -> "COMMAND_COMPLETE"
      [] c = "command_summarize" -> "COMMAND_SUMMARIZE"
      [] c = "command_improve"   -> "COMMAND_IMPROVE"
      [] c = "command_expand"    -> "COMMAND_EXPAND"
      [] OTHER -> c
upper(s) == [i \in 1..Len(s) |-> UpperSym(s[i])]

NoExc == <<>>
\* str(e) of the exceptions the code can meet
KeyErrorMsg(key) == <<"'", key, "'">>
FloatErrorMsg(text) == <<"could not convert string to float: ", "'">> \o text \o <<"'">>
IntErrorMsg(text) == <<"invalid literal for int() with base 10: ", "'">> \o text \o <<"'">>
UnoErrorMsg == <<"com.sun.star.uno.RuntimeException">>
StrAttributeErrorMsg == <<"'str' object has no attribute 'getByIndex'">>
HTTPErrorMsg(net) == <<"HTTP Error ">> \o NatToDigits(net.status) \o <<": ", "reason">>
URLErrorMsg == <<"<urlopen error>">>
ParseErrorMsg == <<"'choices'">>

Event(e, k, s, v) == [e |-> e, k |-> k, s |-> s, v |-> v]

\* show_dialog(title, message): one modal ERRORBOX
show_dialog(evs, title, message) ==
    Append(evs, Event("dialog", "ERRORBOX", message, PStr(title)))

Dialogs(evs) == {i \in 1..Len(evs) : evs[i].e = "dialog"}
Requests(evs) == {i \in 1..Len(evs) : evs[i].e = "http"}
Forms(evs) == {i \in 1..Len(evs) : evs[i].e = "form"}
Writes(evs) == {i \in 1..Len(evs) : evs[i].e = "set_config"}
Inserts(evs) == {i \in 1..Len(evs) : evs[i].e = "insert"}
Calls(evs) == {i \in 1..Len(evs) : evs[i].e = "process_text"}

----------------------------------------------------------------------------
(* The two modal forms. *)

DefaultModel == <<"gpt-4o-mini">>
DefaultMaxTokens == <<"1", "0", "0", "0">>
DefaultTemperature == <<"0", ".", "5">>

SettingsKeys == {"openai_api_key", "model", "max_tokens", "temperature"}

\* What the user does with a form: confirms it with the field texts given,
\* closes it, or the toolkit fails while the form is built or run
Form(outcome, k, m, mt, t, l) ==
    [outcome |-> outcome, openai_api_key |-> k, model |-> m,
     max_tokens |-> mt, temperature |-> t, language |-> l]
FormNone == Form("none", <<>>, <<>>, <<>>, <<>>, <<>>)
FormCancel == Form("cancel", <<>>, <<>>, <<>>, <<>>, <<>>)
FormRaise == Form("raise", <<>>, <<>>, <<>>, <<>>, <<>>)

Raise(msg) == [exc |-> msg, result |-> EmptyDict]
Return(result) == [exc |-> NoExc, result |-> result]

\* Variant of settings_box: a max_tokens field that is not all digits kept
\* in the record as the text typed
settings_box_KeepText(f, form) ==
    IF form.outcome = "raise" THEN Raise(UnoErrorMsg)
    ELSE IF form.outcome = "ok" THEN
        IF ~FloatTextOk(form.temperature)
        THEN Raise(FloatErrorMsg(form.temperature))
        ELSE Return([EmptyDict EXCEPT
                !["openai_api_key"] = PStr(form.openai_api_key),
                !["model"] = PStr(form.model),
                !["temperature"] = PFloat(FloatTextVal(form.temperature)),
                !["max_tokens"] =
                    IF isdigit(form.max_tokens)
                    THEN PInt(DigitsToNat(form.max_tokens))
                    ELSE PStr(form.max_tokens)])
    ELSE
        LET t == get_config(f, "temperature", PStr(DefaultTemperature))
        IN  IF ~PyFloatOk(t) THEN Raise(FloatErrorMsg(PyStr(t)))
            ELSE Return([EmptyDict EXCEPT
                !["openai_api_key"] =
                    PStr(PyStr(get_config(f, "openai_api_key", PStr(<<>>)))),
                !["model"] =
                    PStr(PyStr(get_config(f, "model", PStr(DefaultModel)))),
                !["max_tokens"] =
                    PStr(PyStr(get_config(f, "max_tokens", PStr(DefaultMaxTokens)))),
                !["temperature"] = PFloat(PyFloat(t))])

\* settings_box: the record returned, or the exception raised
settings_box(f, form) ==
    IF form.outcome = "raise" THEN Raise(UnoErrorMsg)
    ELSE IF form.outcome = "ok" THEN
        IF ~FloatTextOk(form.temperature)
        THEN Raise(FloatErrorMsg(form.temperature))
        ELSE Return([EmptyDict EXCEPT
                !["openai_api_key"] = PStr(form.openai_api_key),
                !["model"] = PStr(form.model),
                !["temperature"] = PFloat(FloatTextVal(form.temperature)),
                !["max_tokens"] =
                    IF isdigit(form.max_tokens)
                    THEN PInt(DigitsToNat(form.max_tokens)) ELSE Absent])
    ELSE
        LET t == get_config(f, "temperature", PStr(DefaultTemperature))
        IN  IF ~PyFloatOk(t) THEN Raise(FloatErrorMsg(PyStr(t)))
            ELSE Return([EmptyDict EXCEPT
                !["openai_api_key"] =
                    PStr(PyStr(get_config(f, "openai_api_key", PStr(<<>>)))),
                !["model"] =
                    PStr(PyStr(get_config(f, "model", PStr(DefaultModel)))),
                !["max_tokens"] =
                    PStr(PyStr(get_config(f, "max_tokens", PStr(DefaultMaxTokens)))),
                !["temperature"] = PFloat(PyFloat(t))])

\* translation_box: the record returned, or the exception raised
translation_box(f, form) ==
    IF form.outcome = "raise" THEN Raise(UnoErrorMsg)
    ELSE IF form.outcome = "ok"
    THEN Return([EmptyDict EXCEPT !["language"] = PStr(form.language)])
    ELSE Return([EmptyDict EXCEPT
            !["language"] = PStr(PyStr(get_config(f, "language", PStr(<<>>))))])

----------------------------------------------------------------------------
(* The completion client and the result inserter. *)

PromptCommands == {"complete", "summarize", "improve", "expand", "translate"}

\* prompt_map[command]
prompt_map(command, text, lang) ==
    CASE command = "complete"  -> Lang("prompt_complete") \o <<":", " ">> \o text
      [] command = "summarize" -> Lang("prompt_summarize") \o <<":", " ">> \o text
      [] command = "improve"   -> Lang("prompt_improve") \o <<":", " ">> \o text
      [] command = "expand"    -> Lang("prompt_expand") \o <<":", " ">> \o text
      [] OTHER -> Lang("prompt_translate") \o <<" ">> \o lang \o <<":", " ">> \o text

HTTP_OK == 200

\* What the endpoint answers to one request.  urlopen returns the response
\* for a 2xx status and raises HTTPError for any other; it raises URLError
\* when no response arrives
Net(kind, status, body, content) ==
    [kind |-> kind, status |-> status, body |-> body, content |-> content]
NetNone == Net("none", 0, <<>>, <<>>)
urlopen_raises(net) == net.kind = "transport" \/ ~(net.status \in 200..299)
urlopen_error(net) ==
    IF net.kind = "transport" THEN URLErrorMsg ELSE HTTPErrorMsg(net)

Result(evs, ret, exc) == [events |-> evs, ret |-> ret, exc |-> exc]

\* Variant of round_trip: a failed request sent a second time
round_trip_Retry(called, command, text, lang, net) ==
    LET req == Event("http", command, prompt_map(command, text, lang), PStr(lang))
        sent == Append(called, req)
    IN  IF urlopen_raises(net)
        THEN Result(show_dialog(Append(sent, req), Lang("error"),
                                urlopen_error(net)), PNone, NoExc)
        ELSE IF net.status = HTTP_OK /\ net.kind # "malformed"
        THEN Result(sent, PStr(strip(net.content)), NoExc)
        ELSE Result(show_dialog(sent, Lang("error"), net.body), PNone, NoExc)

\* Lines 293-304, the try block: one POST, then the content of the first
\* choice trimmed, or an error dialog and no value
round_trip(called, command, text, lang, net) ==
    LET sent == Append(called, Event("http", command,
                                     prompt_map(command, text, lang), PStr(lang)))
    IN  IF urlopen_raises(net)
        THEN Result(show_dialog(sent, Lang("error"), urlopen_error(net)),
                    PNone, NoExc)
        ELSE IF net.status = HTTP_OK
        THEN IF net.kind = "malformed"
             THEN Result(show_dialog(sent, Lang("error"), ParseErrorMsg),
                         PNone, NoExc)
             ELSE Result(sent, PStr(strip(net.content)), NoExc)
        ELSE Result(show_dialog(sent, Lang("error"), net.body), PNone, NoExc)

\* Variant of process_text: the lookup of the command in prompt_map left out
process_text_NoCommandCheck(f, evs, text, command, lang, net) ==
    LET called == Append(evs, Event("process_text", command, text, PStr(lang)))
        max_tokens == get_config(f, "max_tokens", PStr(DefaultMaxTokens))
        temperature == get_config(f, "temperature", PStr(DefaultTemperature))
    IN  IF ~PyIntOk(max_tokens)
        THEN Result(called, PNone, IntErrorMsg(PyStr(max_tokens)))
        ELSE IF ~PyFloatOk(temperature)
        THEN Result(called, PNone, FloatErrorMsg(PyStr(temperature)))
        ELSE round_trip(called, command, text, lang, net)

\* process_text(text, command, lang): the events it adds, the value it
\* returns and the exception it lets through (int() and float() of the
\* stored parameters are evaluated outside the try block)
process_text(f, evs, text, command, lang, net) ==
    LET called == Append(evs, Event("process_text", command, text, PStr(lang)))
        max_tokens == get_config(f, "max_tokens", PStr(DefaultMaxTokens))
        temperature == get_config(f, "temperature", PStr(DefaultTemperature))
    IN  IF command \notin PromptCommands THEN Result(called, PNone, NoExc)
        ELSE IF ~PyIntOk(max_tokens)
        THEN Result(called, PNone, IntErrorMsg(PyStr(max_tokens)))
        ELSE IF ~PyFloatOk(temperature)
        THEN Result(called, PNone, FloatErrorMsg(PyStr(temperature)))
        ELSE round_trip(called, command, text, lang, net)

BlockHead == <<"\n", "\n", "[", "-", "-", "-">>
BlockFoot == <<"\n", "[", "/", "-", "-", "-">>
BlockClose == <<"-", "-", "-", "]">>

command_label(command) ==
    CASE command = "translate" -> Lang("command_translate")
      [] command = "complete"  -> Lang("command_complete")
      [] command = "summarize" -> Lang("command_summarize")
      [] command = "improve"   -> Lang("command_improve")
      [] OTHER -> Lang("command_expand")

\* Variant of insert_text: the stored language read for every command
insert_text_LanguageAlways(f, new_text, selection, command) ==
    LET language == PyStr(get_config(f, "language", PStr(<<>>)))
        label == upper(command_label(command))
    IN  selection
        \o BlockHead \o Lang("block_start") \o <<" ">> \o label \o <<" ">>
        \o language \o BlockClose \o <<"\n">>
        \o new_text
        \o BlockFoot \o Lang("block_end") \o <<" ">> \o label \o <<" ">>
        \o language \o BlockClose \o <<"\n", "\n">>

\* insert_text(doc, new_text, selection, command): the string it sets
insert_text(f, new_text, selection, command) ==
    LET language == IF command = "translate"
                    THEN PyStr(get_config(f, "language", PStr(<<>>)))
                    ELSE <<>>
        label == upper(command_label(command))
    IN  selection
        \o BlockHead \o Lang("block_start") \o <<" ">> \o label \o <<" ">>
        \o language \o BlockClose \o <<"\n">>
        \o new_text
        \o BlockFoot \o Lang("block_end") \o <<" ">> \o label \o <<" ">>
        \o language \o BlockClose \o <<"\n", "\n">>

\* Python truth of a value: None and "" are false
Truthy(v) == ~(v.t = "none" \/ (v.t = "str" /\ v.s = <<>>))

----------------------------------------------------------------------------
(* trigger(command), one operator per branch.  Each gives the file and the *)
(* document the call leaves, its events and the exception that escapes it. *)

Out(f, d, evs, exc) == [file |-> f, doc |-> d, events |-> evs, raised |-> exc]

ErrorTag == <<":error: ">>
SettingsOrder == <<"openai_api_key", "model", "max_tokens", "temperature">>

\* Lines 94-101: result[key] then set_config(key, ...) for each key in turn;
\* a key the record lacks raises KeyError after the earlier keys are written
RECURSIVE persist(_, _, _, _)
persist(f, evs, result, i) ==
    IF i > Len(SettingsOrder) THEN [file |-> f, events |-> evs, exc |-> NoExc]
    ELSE LET key == SettingsOrder[i]
         IN  IF result[key] = Absent
             THEN [file |-> f, events |-> evs, exc |-> KeyErrorMsg(key)]
             ELSE persist(set_config(f, key, result[key]),
                          Append(evs, Event("set_config", key, <<>>, result[key])),
                          result, i + 1)

\* The form call, as an event: the form was shown and closed, or it failed
FormShown(form, which) ==
    IF form.outcome \in {"ok", "cancel"}
    THEN <<Event("form", which, <<>>, PNone)>>
    ELSE <<Event("form_failed", which, <<>>, PNone)>>

\* Variant of settings_except: the error reported in a modal dialog, the way
\* the other branches report theirs
settings_except_Dialog(f, d, evs, msg) ==
    Out(f, d, show_dialog(evs, Lang("error"), msg), NoExc)

\* Lines 103-105: the handler of the settings branch appends to the first
\* range of the selection, which is the view cursor's range
settings_except(f, d, evs, msg) ==
    Out(f, d \o ErrorTag \o msg,
        Append(evs, Event("error_text", "", ErrorTag \o msg, PNone)), NoExc)

trigger_settings(f, d, form) ==
    LET box == settings_box(f, form)
        evs == FormShown(form, "settings")
    IN  IF box.exc # NoExc THEN settings_except(f, d, evs, box.exc)
        ELSE IF box.result = EmptyDict THEN Out(f, d, evs, NoExc)
        ELSE LET p == persist(f, evs, box.result, 1)
             IN  IF p.exc # NoExc
                 THEN settings_except(p.file, d, p.events, p.exc)
                 ELSE Out(p.file, d, p.events, NoExc)

\* Lines 134-136: in the translate branch `selection` is the str read from
\* the view cursor, so the handler itself raises AttributeError
translate_except(f, d, evs) == Out(f, d, evs, StrAttributeErrorMsg)

inserted(f, d, evs, ret, selection, command) ==
    IF Truthy(ret)
    THEN LET text == insert_text(f, ret.s, selection, command)
         IN  Out(f, text, Append(evs, Event("insert", command, text, ret)), NoExc)
    ELSE Out(f, d, evs, NoExc)

\* Variant of validate: the API key checked before the selection
validate_KeyFirst(f, selection) ==
    IF get_config(f, "openai_api_key", PStr(<<>>)) = PStr(<<>>)
    THEN Lang("no_api_key")
    ELSE IF strip(selection) = <<>> THEN Lang("no_text_selected")
    ELSE <<>>

\* Variant of validate: the API-key check left out
validate_NoKeyCheck(f, selection) ==
    IF strip(selection) = <<>> THEN Lang("no_text_selected") ELSE <<>>

\* Variant of validate: the selection tested without strip()
validate_NoStrip(f, selection) ==
    IF selection = <<>> THEN Lang("no_text_selected")
    ELSE IF get_config(f, "openai_api_key", PStr(<<>>)) = PStr(<<>>)
    THEN Lang("no_api_key")
    ELSE <<>>

\* Lines 112-120 and 143-151: the two checks both branches make before
\* anything else; the message of the check that fails, <<>> when none does
validate(f, selection) ==
    IF strip(selection) = <<>> THEN Lang("no_text_selected")
    ELSE IF get_config(f, "openai_api_key", PStr(<<>>)) = PStr(<<>>)
    THEN Lang("no_api_key")
    ELSE <<>>

\* Variant of abort: the message also appended to the document, the way
\* the settings branch reports its errors
abort_InlineError(f, d, message) ==
    Out(f, d \o ErrorTag \o message,
        show_dialog(<<>>, Lang("error"), message), NoExc)

\* show_dialog(error, message); return
abort(f, d, message) ==
    Out(f, d, show_dialog(<<>>, Lang("error"), message), NoExc)

\* Variant of trigger_translate: the language persisted after the pipeline
\* has run instead of before
trigger_translate_PersistAfter(f, d, form, net) ==
    LET selection == d
        failed == validate(f, selection)
    IN  IF failed # <<>> THEN abort(f, d, failed)
        ELSE
        LET box == translation_box(f, form)
            evs == FormShown(form, "translate")
        IN  IF box.exc # NoExc THEN translate_except(f, d, evs)
            ELSE IF box.result = EmptyDict THEN Out(f, d, evs, NoExc)
            ELSE
            LET language == box.result["language"]
                r == process_text(f, evs, selection, "translate",
                                  PyStr(language), net)
                f1 == set_config(f, "language", language)
                evs1 == Append(r.events,
                               Event("set_config", "language", <<>>, language))
            IN  IF language = PStr(<<>>)
                THEN Out(f1, d, Append(evs, Event("set_config", "language",
                                                  <<>>, language)), NoExc)
                ELSE IF r.exc # NoExc THEN translate_except(f, d, r.events)
                ELSE inserted(f1, d, evs1, r.ret, selection, "translate")

\* Lines 107-136
trigger_translate(f, d, form, net) ==
    LET selection == d
        failed == validate(f, selection)
    IN  IF failed # <<>> THEN abort(f, d, failed)
        ELSE
        LET box == translation_box(f, form)
            evs == FormShown(form, "translate")
        IN  IF box.exc # NoExc THEN translate_except(f, d, evs)
            ELSE IF box.result = EmptyDict THEN Out(f, d, evs, NoExc)
            ELSE
            LET language == box.result["language"]
                f1 == set_config(f, "language", language)
                evs1 == Append(evs, Event("set_config", "language", <<>>, language))
            IN  IF language = PStr(<<>>) THEN Out(f1, d, evs1, NoExc)
                ELSE LET r == process_text(f1, evs1, selection, "translate",
                                           PyStr(language), net)
                     IN  IF r.exc # NoExc THEN translate_except(f1, d, r.events)
                         ELSE inserted(f1, d, r.events, r.ret, selection,
                                       "translate")

\* Lines 138-155: every other command name
trigger_other(f, d, command, net) ==
    LET selection == d
        failed == validate(f, selection)
    IN  IF failed # <<>> THEN abort(f, d, failed)
        ELSE LET r == process_text(f, <<>>, selection, command, <<>>, net)
             IN  IF r.exc # NoExc THEN Out(f, d, r.events, r.exc)
                 ELSE inserted(f, d, r.events, r.ret, selection, command)

trigger(f, d, command, form, net) ==
    IF command = "hello" THEN Out(f, d, <<>>, NoExc)
    ELSE IF command = "settings" THEN trigger_settings(f, d, form)
    ELSE IF command = "translate" THEN trigger_translate(f, d, form, net)
    ELSE trigger_other(f, d, command, net)

----------------------------------------------------------------------------
(* The environment: what the user selects and types, what the file holds   *)
(* at start, what the endpoint answers.                                    *)

SeqsUpTo(A, n) == UNION {[1..k -> A] : k \in 0..n}

Selections == SeqsUpTo({"a", " "}, MaxSelLen)
RawContents == SeqsUpTo({"b", " "}, MaxRawLen)

KeyTexts == {<<>>, <<"k">>}
ModelTexts == {<<"m">>}
MaxTokensTexts == {<<"5">>, <<"x">>}
TemperatureTexts == {<<"0", ".", "7">>, <<"1">>, <<"x">>}
LanguageTexts == {<<>>, <<"a">>}
Bodies == {<<"{", "e", "}">>}

SettingsForms ==
    {Form("ok", k, m, mt, t, <<>>) : k \in KeyTexts, m \in ModelTexts,
                                     mt \in MaxTokensTexts, t \in TemperatureTexts}
    \cup {FormCancel, FormRaise}
TranslateForms ==
    {Form("ok", <<>>, <<>>, <<>>, <<>>, l) : l \in LanguageTexts}
    \cup {FormCancel, FormRaise}

NetOutcomes ==
    {Net("ok", HTTP_OK, <<>>, c) : c \in RawContents}
    \cup {Net("malformed", HTTP_OK, b, <<>>) : b \in Bodies}
    \cup {Net("status", st, b, <<>>) : st \in {204, 500}, b \in Bodies}
    \cup {Net("transport", 0, <<>>, <<>>)}

\* The file as the extension finds it: never written, damaged, or an object
\* the extension or the user wrote
InitFiles ==
    {MissingFile, CorruptFile,
     ObjectFile([EmptyDict EXCEPT !["model"] = PStr(<<"m">>)]),
     ObjectFile([EmptyDict EXCEPT !["openai_api_key"] = PStr(<<"k">>)]),
     ObjectFile([EmptyDict EXCEPT !["openai_api_key"] = PStr(<<"k">>),
                                  !["max_tokens"] = PStr(<<"x">>)]),
     ObjectFile([EmptyDict EXCEPT !["openai_api_key"] = PStr(<<"k">>),
                                  !["max_tokens"] = PInt(5),
                                  !["temperature"] = PStr(<<"x">>),
                                  !["language"] = PStr(<<"a">>)])}

SelectionCommands == {"translate", "complete", "summarize", "improve", "expand"}

NoInput == [form |-> FormNone, net |-> NetNone]

\* The inputs a call consumed: the form when a form was opened, the answer
\* of the endpoint when a request was sent
Consumed(evs, form, net) ==
    [form |-> IF \E i \in 1..Len(evs) : evs[i].e \in {"form", "form_failed"}
              THEN form ELSE FormNone,
     net  |-> IF Requests(evs) # {} THEN net ELSE NetNone]

----------------------------------------------------------------------------
(* The state machine. *)

Init ==
    /\ file \in InitFiles
    /\ doc \in Selections
    /\ cmd = ""
    /\ pre = [file |-> file, doc |-> doc]
    /\ inp = NoInput
    /\ events = <<>>
    /\ raised = NoExc
    /\ written = EmptyDict

\* The values the set_config calls among evs leave as last written
RECURSIVE WrittenAfter(_, _, _)
WrittenAfter(w, evs, i) ==
    IF i > Len(evs) THEN w
    ELSE WrittenAfter(IF evs[i].e = "set_config"
                      THEN [w EXCEPT ![evs[i].k] = evs[i].v] ELSE w,
                      evs, i + 1)

Commands ==
    {"hello", "settings", "translate", "complete", "summarize", "improve",
     "expand", "unknown"}

\* The forms a command can open and the answers its request can get
FormsFor(command) ==
    IF command = "settings" THEN SettingsForms
    ELSE IF command = "translate" THEN TranslateForms
    ELSE {FormNone}
NetsFor(command) ==
    IF command \in {"hello", "settings"} THEN {NetNone} ELSE NetOutcomes

\* One call of trigger(command), with the user's and the endpoint's answers
Trigger ==
    \E command \in Commands :
      \E form \in FormsFor(command), net \in NetsFor(command) :
        LET out == trigger(file, doc, command, form, net)
        IN  /\ cmd = ""
            /\ file' = out.file
            /\ doc' = out.doc
            /\ cmd' = command
            /\ pre' = [file |-> file, doc |-> doc]
            /\ inp' = Consumed(out.events, form, net)
            /\ events' = out.events
            /\ raised' = out.raised
            /\ written' = WrittenAfter(written, out.events, 1)

\* Between two calls the user selects text (the same or other); cmd = ""
\* marks the state a call starts from, the history of the last call cleared
Select ==
    \E s \in Selections :
        /\ cmd # ""
        /\ doc' = s
        /\ cmd' = ""
        /\ pre' = [file |-> file, doc |-> s]
        /\ inp' = NoInput
        /\ events' = <<>>
        /\ raised' = NoExc
        /\ UNCHANGED <<file, written>>

Next == Trigger \/ Select

Spec == Init /\ [][Next]_vars

----------------------------------------------------------------------------
(* The settings store on its own: get_config and set_config called with    *)
(* any key, value and default, on a file that may be lost or damaged       *)
(* between two calls.                                                      *)

StoreValues == {PStr(<<"0", ".", "5">>), PInt(5), PFloat(7)}
StoreDefaults == {PStr(<<>>), PStr(DefaultTemperature)}

StoreInit ==
    /\ file \in {MissingFile, CorruptFile, ObjectFile(EmptyDict)}
    /\ doc = <<>>
    /\ cmd = ""
    /\ pre = [file |-> file, doc |-> doc]
    /\ inp = NoInput
    /\ events = <<>>
    /\ raised = NoExc
    /\ written = EmptyDict

StoreSet ==
    \E key \in Keys, value \in StoreValues :
        /\ file' = set_config(file, key, value)
        /\ written' = [written EXCEPT ![key] = value]
        /\ cmd' = "set_config"
        /\ events' = <<>>
        /\ UNCHANGED <<doc, pre, inp, raised>>

StoreGet ==
    \E key \in Keys, default \in StoreDefaults :
        /\ cmd' = "get_config"
        /\ events' = <<Event("get_config", key, <<>>, default),
                       Event("return", key, <<>>, get_config(file, key, default))>>
        /\ UNCHANGED <<file, doc, pre, inp, raised, written>>

\* The file is deleted or damaged outside the extension
StoreLose ==
    \E f \in {MissingFile, CorruptFile} :
        /\ file.kind = "object"
        /\ file' = f
        /\ written' = EmptyDict
        /\ cmd' = "lose"
        /\ events' = <<>>
        /\ UNCHANGED <<doc, pre, inp, raised>>

StoreNext == StoreSet \/ StoreGet \/ StoreLose

SpecStore == StoreInit /\ [][StoreNext]_vars

----------------------------------------------------------------------------
(* Vocabulary of the properties, stated on the file as it is on disk and   *)
(* on the text as typed, not through the operators of the model above.     *)

\* The member the file holds under key, NoTok when it holds none
Stored(f, key) == IF f.kind = "object" THEN f.data[key] ELSE NoTok

StringTok(text) == [j |-> "string", text |-> text]

\* The stored API key is the empty string, or no API key is stored
NoApiKey(f) == Stored(f, "openai_api_key") \in {NoTok, StringTok(<<>>)}

\* The text is empty or whitespace only
Blank(text) == \A i \in 1..Len(text) : text[i] \in {" ", "\n"}

DialogsWith(evs, message) == {i \in Dialogs(evs) : evs[i].s = message}

PlainCommands == {"complete", "summarize", "improve", "expand"}

\* C1: a command of {complete, summarize, improve, expand} run on a
\* non-blank selection while the stored API key is empty or unset shows
\* exactly one error dialog, the "no API key" one, sends no HTTP request and
\* inserts nothing into the document.
C1_NoApiKeyShortCircuits ==
    (cmd \in PlainCommands /\ ~Blank(pre.doc) /\ NoApiKey(pre.file))
    => /\ Cardinality(Dialogs(events)) = 1
       /\ Cardinality(DialogsWith(events, <<"no_api_key">>)) = 1
       /\ Requests(events) = {}
       /\ Inserts(events) = {}
       /\ doc = pre.doc

C1_Witness ==
    /\ cmd = "complete" /\ ~Blank(pre.doc)
    /\ Stored(pre.file, "openai_api_key") = StringTok(<<>>)
    /\ Cardinality(DialogsWith(events, <<"no_api_key">>)) = 1
    /\ Requests(events) = {}

\* C2: a command that requires a selection, run while the view cursor's
\* string is empty or whitespace only, shows the "no text selected" error
\* dialog and never reaches the completion client: no HTTP request, no
\* translation dialog, whatever the stored API key is.
C2_BlankSelectionRejected ==
    (cmd \in SelectionCommands /\ Blank(pre.doc))
    => /\ DialogsWith(events, <<"no_text_selected">>) # {}
       /\ Requests(events) = {}
       /\ Calls(events) = {}
       /\ \A i \in 1..Len(events) : events[i].e \notin {"form", "form_failed"}

C2_Witness ==
    /\ cmd = "translate" /\ pre.doc = <<" ", " ">>
    /\ ~NoApiKey(pre.file)
    /\ DialogsWith(events, <<"no_text_selected">>) # {}

\* The stored max_tokens / temperature is absent (the default applies), a
\* number, or text that int() / float() converts
ConvertsToInt(f) ==
    LET tok == Stored(f, "max_tokens")
    IN  tok.j \in {"absent", "number"} \/ (tok.j = "string" /\ IntTextOk(tok.text))
ConvertsToFloat(f) ==
    LET tok == Stored(f, "temperature")
    IN  tok.j \in {"absent", "number"} \/ (tok.j = "string" /\ FloatTextOk(tok.text))

\* The language the translation form gave back: the text typed when it was
\* confirmed, the stored language when it was closed
LanguageObtained ==
    IF inp.form.outcome = "ok" THEN inp.form.language
    ELSE Stored(pre.file, "language").text

\* The call passed every check that precedes the request
Passes ==
    /\ ~Blank(pre.doc)
    /\ ~NoApiKey(pre.file)
    /\ ConvertsToInt(pre.file) /\ ConvertsToFloat(pre.file)
    /\ cmd = "translate" =>
            (inp.form.outcome \in {"ok", "cancel"} /\ LanguageObtained # <<>>)

\* C3, as stated: every command other than settings that the user did not
\* cancel results in exactly one completion request.
C3_Original ==
    (cmd \in SelectionCommands /\ inp.form.outcome # "cancel")
    => Cardinality(Requests(events)) = 1

\* C3, amended: no call sends more than one completion request, and a command
\* of {translate, complete, summarize, improve, expand} sends exactly one
\* exactly when the selection is not blank, an API key is stored, the stored
\* max_tokens and temperature convert to int and float and, for translate,
\* the translation form gives back a non-empty language; otherwise none.
C3_OneRequestWhenChecksPass ==
    /\ Cardinality(Requests(events)) <= 1
    /\ cmd \in SelectionCommands =>
            (Cardinality(Requests(events)) = 1 <=> Passes)

C3_Witness ==
    /\ cmd = "translate" /\ Passes /\ inp.form.outcome = "ok"
    /\ inp.net.kind = "status"
    /\ Cardinality(Requests(events)) = 1

\* The file holds, under key, the text as typed or a number of its value
PersistedAs(f, key, text) ==
    LET tok == Stored(f, key)
    IN  /\ tok # NoTok
        /\ \/ tok.text = text
           \/ /\ tok.j = "number" /\ FloatTextOk(text)
              /\ FloatTextVal(tok.text) = FloatTextVal(text)

\* C4, as stated: when the settings form is confirmed with field contents
\* it accepts (settings_box returns a record), openai_api_key, model,
\* max_tokens and temperature are all persisted with the values entered, and
\* no HTTP request is made.
C4_Original ==
    (cmd = "settings" /\ inp.form.outcome = "ok"
        /\ FloatTextOk(inp.form.temperature))
    => /\ PersistedAs(file, "openai_api_key", inp.form.openai_api_key)
       /\ PersistedAs(file, "model", inp.form.model)
       /\ PersistedAs(file, "max_tokens", inp.form.max_tokens)
       /\ PersistedAs(file, "temperature", inp.form.temperature)
       /\ Requests(events) = {}

\* C5, as stated: when the settings form is cancelled the command does
\* nothing: the settings file (its existence, and the value and type under
\* every key) and the document are as they were before the call.
C5_Original ==
    (cmd = "settings" /\ inp.form.outcome = "cancel")
    => (file = pre.file /\ doc = pre.doc)

\* c is raw without its leading and trailing whitespace
IsTrimOf(c, raw) ==
    \E i \in 1..(Len(raw) + 1), j \in 0..Len(raw) :
        /\ c = SubSeq(raw, i, j)
        /\ Blank(SubSeq(raw, 1, i - 1))
        /\ Blank(SubSeq(raw, j + 1, Len(raw)))
        /\ c # <<>> => (~Blank(<<c[1]>>) /\ ~Blank(<<c[Len(c)]>>))

\* C6: when translate passes the selection and API-key checks and the
\* translation form gives back language L, L is persisted under "language"
\* before anything else is done; with L empty no completion request is sent
\* and the document is not modified; with L non-empty the completion
\* pipeline is run once, with command translate and language L, and the
\* result it yields is inserted.
C6_TranslatePersistsThenRuns ==
    (cmd = "translate" /\ Forms(events) # {})
    => LET L == LanguageObtained
       IN  /\ Len(events) >= 2
           /\ events[1].e = "form"
           /\ events[2] = Event("set_config", "language", <<>>, PStr(L))
           /\ Stored(file, "language") = StringTok(L)
           /\ L = <<>> => /\ Requests(events) = {} /\ Calls(events) = {}
                          /\ doc = pre.doc
           /\ L # <<>> =>
                /\ Cardinality(Calls(events)) = 1
                /\ \A i \in Calls(events) \cup Requests(events) :
                        /\ i > 2
                        /\ events[i].k = "translate"
                        /\ events[i].v = PStr(L)
                /\ Cardinality(Requests(events)) <= 1
                /\ IF inp.net.kind = "ok" /\ ~Blank(inp.net.content)
                   THEN \E i \in Inserts(events) :
                            /\ IsTrimOf(events[i].v.s, inp.net.content)
                            /\ doc = events[i].s /\ doc # pre.doc
                   ELSE Inserts(events) = {} /\ doc = pre.doc

C6_Witness ==
    /\ cmd = "translate" /\ inp.form.outcome = "ok"
    /\ inp.form.language = <<"a">>
    /\ Stored(pre.file, "language") # StringTok(<<"a">>)
    /\ Stored(file, "language") = StringTok(<<"a">>)
    /\ inp.net.content = <<" ", "b">>
    /\ Inserts(events) # {}

\* C7: a command that requires a selection and aborts on a validation error
\* (blank selection, or no API key) changes nothing: the document text and
\* the settings file, key by key, are as they were before the call.
C7_ValidationAbortChangesNothing ==
    (cmd \in SelectionCommands /\ (Blank(pre.doc) \/ NoApiKey(pre.file)))
    => /\ doc = pre.doc
       /\ file.kind = pre.file.kind
       /\ \A key \in Keys : Stored(file, key) = Stored(pre.file, key)

C7_Witness ==
    /\ cmd = "improve" /\ ~Blank(pre.doc) /\ NoApiKey(pre.file)
    /\ pre.file.kind = "corrupt" /\ file.kind = "corrupt"
    /\ Dialogs(events) # {}

\* C8: the settings store round trip, over any sequence of operations:
\* after set_config(k, v), get_config(k, d) returns v for every default d
\* until the next set_config on k; set_config(k, v) leaves the value of
\* every other key as it was; get_config on a key never set, on a missing
\* file or on a corrupt file returns the default supplied.
C8_StoreRoundTrip ==
    /\ \A key \in Keys, default \in StoreDefaults :
          get_config(file, key, default) =
              IF written[key] # Absent THEN written[key] ELSE default
    /\ cmd = "get_config" =>
          events[2].v = IF written[events[1].k] # Absent
                        THEN written[events[1].k] ELSE events[1].v
    /\ file.kind \in {"missing", "corrupt"} => written = EmptyDict

C8_Witness ==
    /\ cmd = "get_config"
    /\ events[1].k = "temperature" /\ events[1].v = PStr(<<"0", ".", "5">>)
    /\ events[2].v = PFloat(7)
    /\ written["max_tokens"] = PInt(5)
    /\ written["language"] = Absent

\* The markers of the inserted block, and where a marker occurs in a text
MarkerLabel(command) ==
    CASE command = "translate" -> <<"COMMAND_TRANSLATE">>
      [] command = "complete"  -> <<"COMMAND_COMPLETE">>
      [] command = "summarize" -> <<"COMMAND_SUMMARIZE">>
      [] command = "improve"   -> <<"COMMAND_IMPROVE">>
      [] command = "expand"    -> <<"COMMAND_EXPAND">>
      [] OTHER -> <<>>
StartMarker(command, language) ==
    <<"[", "-", "-", "-", "block_start", " ">> \o MarkerLabel(command)
    \o <<" ">> \o language \o <<"-", "-", "-", "]">>
EndMarker(command, language) ==
    <<"[", "/", "-", "-", "-", "block_end", " ">> \o MarkerLabel(command)
    \o <<" ">> \o language \o <<"-", "-", "-", "]">>
Occurrences(marker, text) ==
    {i \in 1..(Len(text) - Len(marker) + 1) :
        SubSeq(text, i, i + Len(marker) - 1) = marker}
\* Marker openings of either kind, whatever label and language they carry
Openings(text) ==
    {i \in 1..Len(text) : text[i] = "[" /\ i < Len(text)
                          /\ text[i + 1] \in {"-", "/"}}

\* C9: whenever a command inserts a result, the view cursor's string becomes
\* the original selection, verbatim as a prefix, followed by exactly one
\* start marker and exactly one end marker that bracket the generated text,
\* which is the trimmed content of the first choice; the language slot of
\* both markers is empty for every command except translate, where it is the
\* persisted target language, the one sent in the prompt of the same call.
C9_InsertedBlock ==
    Inserts(events) # {}
    => LET slot == IF cmd = "translate" THEN Stored(file, "language").text
                   ELSE <<>>
           start == StartMarker(cmd, slot)
           end == EndMarker(cmd, slot)
           tail == SubSeq(doc, Len(pre.doc) + 1, Len(doc))
       IN  /\ Len(doc) > Len(pre.doc)
           /\ SubSeq(doc, 1, Len(pre.doc)) = pre.doc
           /\ Cardinality(Occurrences(start, tail)) = 1
           /\ Cardinality(Occurrences(end, tail)) = 1
           /\ Cardinality(Openings(tail)) = 2
           /\ \E gen \in SeqsUpTo({"b", " "}, Len(inp.net.content)) :
                /\ gen # <<>> /\ IsTrimOf(gen, inp.net.content)
                /\ tail = <<"\n", "\n">> \o start \o <<"\n">> \o gen
                          \o <<"\n">> \o end \o <<"\n", "\n">>
           /\ cmd = "translate" =>
                /\ slot = LanguageObtained
                /\ \A i \in Requests(events) :
                     events[i].s = <<"prompt_translate", " ">> \o slot
                                   \o <<":", " ">> \o pre.doc

C9_Witness ==
    /\ cmd = "translate" /\ Inserts(events) # {}
    /\ Stored(file, "language") = StringTok(<<"a">>)
    /\ pre.doc = <<"a", " ">>
    /\ inp.net.content = <<" ", "b">>

\* C10, as stated: when the endpoint answers a request with a status other
\* than 200, an error dialog whose message is the raw response body is
\* shown, process_text yields no result and the document is unchanged.
C10_Original ==
    (Requests(events) # {} /\ inp.net.kind = "status")
    => /\ DialogsWith(events, inp.net.body) # {}
       /\ Inserts(events) = {}
       /\ doc = pre.doc

\* The call met one of the failures a command other than settings can meet
UserFacingFailure ==
    \/ Blank(pre.doc)
    \/ NoApiKey(pre.file)
    \/ ~ConvertsToInt(pre.file)
    \/ ~ConvertsToFloat(pre.file)
    \/ inp.net.kind \in {"transport", "status", "malformed"}
    \/ inp.form.outcome = "raise"

\* The ':error:' text the settings branch writes occurs in the text
HasErrorTag(text) == \E i \in 1..Len(text) : text[i] = ":error: "

\* C11, as stated: for every command other than settings, a failure met
\* during trigger (blank selection, no API key, stored max_tokens that is
\* not an integer or stored temperature that is not a float, transport
\* error, status other than 200, malformed response, failure inside the
\* translation form) shows a modal error dialog; no exception escapes
\* trigger and no ':error:' text is written into the document.
C11_Original ==
    (cmd \in SelectionCommands /\ UserFacingFailure)
    => /\ Dialogs(events) # {}
       /\ raised = NoExc
       /\ ~HasErrorTag(doc)

\* The text is one or more decimal digits
DigitText(text) ==
    /\ text # <<>>
    /\ \A i \in 1..Len(text) :
         text[i] \in {"0", "1", "2", "3", "4", "5", "6", "7", "8", "9"}

\* The settings flow raises: the form fails, it is confirmed with a
\* temperature that is not a number or a max_tokens that is not all digits,
\* or it is closed while the stored temperature is not a number
SettingsRaises ==
    \/ inp.form.outcome = "raise"
    \/ /\ inp.form.outcome = "ok"
       /\ ~FloatTextOk(inp.form.temperature) \/ ~DigitText(inp.form.max_tokens)
    \/ inp.form.outcome = "cancel" /\ ~ConvertsToFloat(pre.file)

\* C12: every exception raised during the settings flow (inside the form or
\* while its result is persisted) is caught by trigger: ':error: ' followed
\* by the message is appended to the string of the selection's first range,
\* no modal dialog is shown and trigger returns normally; when nothing is
\* raised the document is left as it was.
C12_SettingsErrorsInline ==
    cmd = "settings"
    => /\ Dialogs(events) = {}
       /\ raised = NoExc
       /\ IF SettingsRaises
          THEN /\ Len(doc) > Len(pre.doc) + 1
               /\ SubSeq(doc, 1, Len(pre.doc)) = pre.doc
               /\ doc[Len(pre.doc) + 1] = ":error: "
               /\ (inp.form.outcome = "ok" /\ FloatTextOk(inp.form.temperature))
                     => doc = pre.doc \o <<":error: ", "'", "max_tokens", "'">>
          ELSE doc = pre.doc

C12_Witness ==
    /\ cmd = "settings" /\ inp.form.outcome = "ok"
    /\ inp.form.max_tokens = <<"x">> /\ inp.form.temperature = <<"1">>
    /\ pre.doc = <<"a">>
    /\ doc = <<"a", ":error: ", "'", "max_tokens", "'">>
    /\ Dialogs(events) = {}

\* C13: nothing is retried: one call of trigger sends at most one HTTP
\* request, whatever the command and whatever the outcome of the request
\* (success, status other than 200, transport failure, malformed response);
\* a failed request is reported once and not sent again, and requests are
\* sent only by a call of trigger.
C13_NoRetry ==
    /\ Cardinality(Requests(events)) <= 1
    /\ inp.net.kind \in {"status", "transport", "malformed"}
         => /\ Cardinality(Requests(events)) = 1
            /\ Cardinality(Dialogs(events)) = 1
            /\ \A i \in Requests(events), j \in Dialogs(events) : i < j
    /\ inp.net.kind = "ok" => Cardinality(Requests(events)) = 1
    /\ cmd \notin SelectionCommands => Requests(events) = {}

C13_Witness ==
    /\ cmd = "summarize" /\ inp.net.kind = "transport"
    /\ Cardinality(Requests(events)) = 1
    /\ Cardinality(Dialogs(events)) = 1

\* C14: when the settings form is confirmed with a max_tokens field that is
\* not all-digit text, the record it returns has no max_tokens (looking it
\* up raises KeyError) and the file keeps the max_tokens it held before the
\* call: no set_config("max_tokens", ...) is made and the stored member is
\* unchanged.
C14_NonDigitMaxTokensKept ==
    (cmd = "settings" /\ inp.form.outcome = "ok"
        /\ ~DigitText(inp.form.max_tokens))
    => /\ Stored(file, "max_tokens") = Stored(pre.file, "max_tokens")
       /\ \A i \in Writes(events) : events[i].k # "max_tokens"
       /\ FloatTextOk(inp.form.temperature)
            => \E i \in 1..Len(events) :
                  /\ events[i].e = "error_text"
                  /\ events[i].s = <<":error: ", "'", "max_tokens", "'">>

C14_Witness ==
    /\ cmd = "settings" /\ inp.form.outcome = "ok"
    /\ inp.form.max_tokens = <<"x">> /\ inp.form.temperature = <<"0", ".", "7">>
    /\ Stored(pre.file, "max_tokens") = [j |-> "number", text |-> <<"5">>]
    /\ Stored(file, "max_tokens") = [j |-> "number", text |-> <<"5">>]
    /\ Writes(events) # {}

\* The command names the extension registers
KnownCommands ==
    {"settings", "translate", "complete", "summarize", "improve", "expand"}

\* C15: for a command name outside {settings, translate, complete,
\* summarize, improve, expand} the prompt builder returns none: the call
\* sends no HTTP request, inserts nothing into the document and writes
\* nothing to the settings file, also when the selection is not blank and an
\* API key is stored; in that case it shows no dialog either.
C15_UnknownCommandDoesNothing ==
    (cmd # "" /\ cmd \notin KnownCommands)
    => /\ Requests(events) = {}
       /\ Inserts(events) = {}
       /\ Writes(events) = {}
       /\ doc = pre.doc
       /\ file = pre.file
       /\ raised = NoExc
       /\ (~Blank(pre.doc) /\ ~NoApiKey(pre.file)) => Dialogs(events) = {}

C15_Witness ==
    /\ cmd = "unknown" /\ ~Blank(pre.doc) /\ ~NoApiKey(pre.file)
    /\ Calls(events) # {}
    /\ Requests(events) = {}
    /\ doc = pre.doc

\* C16, as stated: when the translation form is cancelled the command is a
\* no-op: no completion request is sent, the document is not modified and
\* the settings file (the language member and the file's existence
\* included) is as it was, whatever language an earlier translate stored.
C16_Original ==
    (cmd = "translate" /\ inp.form.outcome = "cancel")
    => /\ Requests(events) = {}
       /\ doc = pre.doc
       /\ file.kind = pre.file.kind
       /\ \A key \in Keys : Stored(file, key) = Stored(pre.file, key)

\* C17: the checks run in a fixed order and stop at the first that fails:
\* for every command that requires a selection the selection check comes
\* before the API-key check, which comes before any translation form and
\* any HTTP request; so one call shows at most one error dialog, a failed
\* check's dialog is all the call does, and with the selection blank and
\* the API key empty the only dialog is 'no text selected'.
C17_ChecksInOrder ==
    /\ Cardinality(Dialogs(events)) <= 1
    /\ cmd \in SelectionCommands =>
        /\ Blank(pre.doc)
             => /\ Len(events) = 1
                /\ DialogsWith(events, <<"no_text_selected">>) = {1}
        /\ (~Blank(pre.doc) /\ NoApiKey(pre.file))
             => /\ Len(events) = 1
                /\ DialogsWith(events, <<"no_api_key">>) = {1}
        /\ (~Blank(pre.doc) /\ ~NoApiKey(pre.file))
             => /\ DialogsWith(events, <<"no_text_selected">>) = {}
                /\ DialogsWith(events, <<"no_api_key">>) = {}
        /\ \A i \in Requests(events), j \in 1..Len(events) :
               events[j].e \in {"form", "form_failed"} => j < i

C17_Witness ==
    /\ cmd = "translate" /\ Blank(pre.doc) /\ NoApiKey(pre.file)
    /\ pre.file.kind = "object"
    /\ Len(events) = 1
    /\ DialogsWith(events, <<"no_text_selected">>) = {1}

====
